---- MODULE Spec2Model ----
(***************************************************************************)
(* Model of the scraping and normalisation pipeline of ai-news-tracker     *)
(* (src/scrapers.py): BaseScraper.fetch_page, BaseScraper.parse_date, the  *)
(* six scrapers' scrape() and NewsAggregator.scrape_all.                   *)
(*                                                                         *)
(* Python values are modelled as follows.  A str is a TLA+ string, read    *)
(* character by character with Len, SubSeq and \o.  An Optional value is    *)
(* the empty tuple (None) or a one-element tuple <<v>>.  A call that can   *)
(* raise returns a record [exc |-> name of the exception class or NoExc,   *)
(* val |-> the returned value].                                            *)
(***************************************************************************)
EXTENDS Integers, Sequences, FiniteSets, TLC

VARIABLES
    date_src,       \* parse_date: how the argument was written (ghost)
    date_str,       \* parse_date: the argument
    date_ret,       \* parse_date: Pending, or the outcome [exc, val]
    fetch_retries,  \* fetch_page: the retries argument
    fetch_env,      \* fetch_page: outcome of the k-th requests.get of the call
    fetch_ret,      \* fetch_page: Pending, or the outcome of the call
    scraper,        \* scrape: the scraper object the call is made on
    page,           \* scrape: the content the source serves (elements / entries)
    parser_ok,      \* scrape: FALSE when building the parse tree raises
    scrape_ret,     \* scrape: Pending, or the outcome [exc, val]
    seen_links,     \* scrape: the seen_links set the last invocation ended with
    scrape_again,   \* scrape: Pending, or the outcome of a second call on the object
    pc,             \* scrape_all: "start", "loop", "done"
    idx,            \* scrape_all: position in self.scrapers of the next scraper
    results,        \* scrape_all: the results dict, a function on its keys
    log,            \* scrape_all: the calls made so far, in order (ghost)
    all_ret,        \* scrape_all: Pending, or the outcome [exc, val]
    db_procs,       \* add_article: the processes that share the database file
    db_table,       \* add_article: the committed rows of the articles table, by id
    db_lock,        \* add_article: None, or the process holding the write lock
    db_pc,          \* add_article: per process "idle", "insert" or "commit"
    db_call,        \* add_article: per process the call in progress [art, before, raced]
    db_ret,         \* add_article: per process Pending, or how its last call ended
    db_calls        \* add_article: the number of calls made so far

vars == <<date_src, date_str, date_ret, fetch_retries, fetch_env, fetch_ret, scraper, page,
          parser_ok, scrape_ret, seen_links, scrape_again, pc, idx, results, log, all_ret, db_procs, db_table, db_lock, db_pc,
          db_call, db_ret, db_calls>>

dateVars == <<date_src, date_str, date_ret>>
fetchVars == <<fetch_retries, fetch_env, fetch_ret>>
scrapeVars == <<scraper, page, parser_ok, scrape_ret, seen_links, scrape_again>>
allVars == <<pc, idx, results, log, all_ret>>
dbVars == <<db_procs, db_table, db_lock, db_pc, db_call, db_ret, db_calls>>

None == <<>>
Some(v) == <<v>>
NoExc == "NoExc"
Pending == [exc |-> "Pending", val |-> None]
Returned(v) == [exc |-> NoExc, val |-> v]
Raised(e) == [exc |-> e, val |-> None]

(***************************************************************************)
(* Characters and strings                                                  *)
(***************************************************************************)
Digits == "0123456789"
UpperLetters == "ABCDEFGHIJKLMNOPQRSTUVWXYZ"
LowerLetters == "abcdefghijklmnopqrstuvwxyz"

\* s[i] of Python, "" outside the string
At(s, i) == IF i >= 1 /\ i <= Len(s) THEN SubSeq(s, i, i) ELSE ""

CharsOf(s) == {SubSeq(s, i, i) : i \in 1..Len(s)}
DigitSet == CharsOf(Digits)
UpperSet == CharsOf(UpperLetters)
LowerSet == CharsOf(LowerLetters)
IsDigit(c) == c \in DigitSet
IsUpper(c) == c \in UpperSet
IsLower(c) == c \in LowerSet
\* \w of the re module on ASCII text
WordSet == DigitSet \cup UpperSet \cup LowerSet \cup {"_"}
\* \s of the re module and the characters str.strip() removes
SpaceSet == {" ", "\t", "\n"}
IsSpace(c) == c \in SpaceSet
NonZeroSet == DigitSet \ {"0"}

IndexIn(c, alphabet) == CHOOSE i \in 1..Len(alphabet) : SubSeq(alphabet, i, i) = c
DigitVal(c) == IndexIn(c, Digits) - 1
DigitChar(n) == SubSeq(Digits, n + 1, n + 1)
LowerChar(c) == IF IsUpper(c) THEN At(LowerLetters, IndexIn(c, UpperLetters)) ELSE c

RECURSIVE Lower(_)
Lower(s) == IF Len(s) = 0 THEN "" ELSE LowerChar(At(s, 1)) \o Lower(SubSeq(s, 2, Len(s)))

\* str.startswith
StartsWith(s, p) == Len(p) <= Len(s) /\ SubSeq(s, 1, Len(p)) = p
\* p in s
Contains(s, p) == \E i \in 1..(Len(s) - Len(p) + 1) : SubSeq(s, i, i + Len(p) - 1) = p

\* str.strip()
RECURSIVE LStrip(_)
LStrip(s) == IF Len(s) > 0 /\ IsSpace(At(s, 1)) THEN LStrip(SubSeq(s, 2, Len(s))) ELSE s
RECURSIVE RStrip(_)
RStrip(s) ==
    IF Len(s) > 0 /\ IsSpace(At(s, Len(s))) THEN RStrip(SubSeq(s, 1, Len(s) - 1)) ELSE s
Strip(s) == RStrip(LStrip(s))

\* index of the last character of the longest run of characters of cls that starts
\* at i (i - 1 when the run is empty): a greedy x+ or x* of the re module
RECURSIVE RunEnd(_, _, _)
RunEnd(s, i, cls) == IF At(s, i) # "" /\ At(s, i) \in cls THEN RunEnd(s, i + 1, cls) ELSE i - 1

\* int() of a string of decimal digits
RECURSIVE IntOf(_)
IntOf(s) ==
    IF Len(s) = 0 THEN 0 ELSE 10 * IntOf(SubSeq(s, 1, Len(s) - 1)) + DigitVal(At(s, Len(s)))

\* the decimal digits of n, zero-padded to at least w characters (format spec 0wd)
RECURSIVE Pad(_, _)
Pad(n, w) ==
    IF n < 10 /\ w <= 1 THEN DigitChar(n) ELSE Pad(n \div 10, w - 1) \o DigitChar(n % 10)

(***************************************************************************)
(* datetime.strptime and date.isoformat, as the standard library defines   *)
(* them: each directive is the regular expression _strptime.TimeRE gives   *)
(* it, a blank of the format is \s+, the match is case-insensitive and     *)
(* must consume the whole text, and the fields must form a valid datetime. *)
(* No alternative of a directive is ever re-tried: every directive of the  *)
(* formats used here is followed by a literal that is not a digit.         *)
(***************************************************************************)
MonthNames == <<"january", "february", "march", "april", "may", "june", "july",
                "august", "september", "october", "november", "december">>
MonthAbbrs == <<"jan", "feb", "mar", "apr", "may", "jun", "jul", "aug", "sep", "oct",
                "nov", "dec">>

Fail == <<0, 0>>

\* (?P<Y>\d\d\d\d)
DirY(s, i) ==
    IF \A k \in 0..3 : IsDigit(At(s, i + k)) THEN <<i + 4, IntOf(SubSeq(s, i, i + 3))>>
    ELSE Fail

\* (?P<m>1[0-2]|0[1-9]|[1-9])
Dirm(s, i) ==
    IF At(s, i) = "1" /\ At(s, i + 1) \in {"0", "1", "2"}
        THEN <<i + 2, IntOf(SubSeq(s, i, i + 1))>>
    ELSE IF At(s, i) = "0" /\ At(s, i + 1) \in NonZeroSet
        THEN <<i + 2, IntOf(SubSeq(s, i, i + 1))>>
    ELSE IF At(s, i) \in NonZeroSet THEN <<i + 1, DigitVal(At(s, i))>>
    ELSE Fail

\* (?P<d>3[0-1]|[1-2]\d|0[1-9]|[1-9]| [1-9])
Dird(s, i) ==
    IF At(s, i) = "3" /\ At(s, i + 1) \in {"0", "1"}
        THEN <<i + 2, IntOf(SubSeq(s, i, i + 1))>>
    ELSE IF At(s, i) \in {"1", "2"} /\ IsDigit(At(s, i + 1))
        THEN <<i + 2, IntOf(SubSeq(s, i, i + 1))>>
    ELSE IF At(s, i) = "0" /\ At(s, i + 1) \in NonZeroSet
        THEN <<i + 2, IntOf(SubSeq(s, i, i + 1))>>
    ELSE IF At(s, i) \in NonZeroSet THEN <<i + 1, DigitVal(At(s, i))>>
    ELSE IF At(s, i) = " " /\ At(s, i + 1) \in NonZeroSet
        THEN <<i + 2, DigitVal(At(s, i + 1))>>
    ELSE Fail

\* (?P<H>2[0-3]|[0-1]\d|\d)
DirH(s, i) ==
    IF At(s, i) = "2" /\ At(s, i + 1) \in {"0", "1", "2", "3"}
        THEN <<i + 2, IntOf(SubSeq(s, i, i + 1))>>
    ELSE IF At(s, i) \in {"0", "1"} /\ IsDigit(At(s, i + 1))
        THEN <<i + 2, IntOf(SubSeq(s, i, i + 1))>>
    ELSE IF IsDigit(At(s, i)) THEN <<i + 1, DigitVal(At(s, i))>>
    ELSE Fail

\* (?P<M>[0-5]\d|\d)
DirM(s, i) ==
    IF At(s, i) \in {"0", "1", "2", "3", "4", "5"} /\ IsDigit(At(s, i + 1))
        THEN <<i + 2, IntOf(SubSeq(s, i, i + 1))>>
    ELSE IF IsDigit(At(s, i)) THEN <<i + 1, DigitVal(At(s, i))>>
    ELSE Fail

\* (?P<S>6[0-1]|[0-5]\d|\d)
DirS(s, i) ==
    IF At(s, i) = "6" /\ At(s, i + 1) \in {"0", "1"}
        THEN <<i + 2, IntOf(SubSeq(s, i, i + 1))>>
    ELSE IF At(s, i) \in {"0", "1", "2", "3", "4", "5"} /\ IsDigit(At(s, i + 1))
        THEN <<i + 2, IntOf(SubSeq(s, i, i + 1))>>
    ELSE IF IsDigit(At(s, i)) THEN <<i + 1, DigitVal(At(s, i))>>
    ELSE Fail

\* (?P<f>[0-9]{1,6}); the microseconds are not part of the date
Dirf(s, i) ==
    LET e == RunEnd(s, i, DigitSet)
    IN  IF e < i THEN Fail ELSE <<(IF e - i + 1 > 6 THEN i + 6 ELSE e + 1), 0>>

\* (?P<B>...) and (?P<b>...): one of the names, whatever the case of its letters
DirName(s, i, names) ==
    LET hits == {n \in 1..Len(names) :
                    /\ i + Len(names[n]) - 1 <= Len(s)
                    /\ Lower(SubSeq(s, i, i + Len(names[n]) - 1)) = names[n]}
    IN  IF hits = {} THEN Fail
        ELSE LET n == CHOOSE n \in hits : TRUE IN <<i + Len(names[n]), n>>

Directive(tok, s, i) ==
    CASE tok = "%Y" -> DirY(s, i)
      [] tok = "%m" -> Dirm(s, i)
      [] tok = "%d" -> Dird(s, i)
      [] tok = "%H" -> DirH(s, i)
      [] tok = "%M" -> DirM(s, i)
      [] tok = "%S" -> DirS(s, i)
      [] tok = "%f" -> Dirf(s, i)
      [] tok = "%B" -> DirName(s, i, MonthNames)
      [] tok = "%b" -> DirName(s, i, MonthAbbrs)

\* the field of the result a directive sets (%B and %b set the month)
FieldOf(tok) ==
    CASE tok \in {"%B", "%b"} -> "%m"
      [] OTHER -> tok

\* the defaults of _strptime for the fields the format does not name
DefaultFields == [t \in {"%Y", "%m", "%d", "%H", "%M", "%S", "%f"} |->
                    IF t = "%Y" THEN 1900 ELSE IF t \in {"%m", "%d"} THEN 1 ELSE 0]

\* format_regex.match(data_string): <<position after the match, fields>>, position 0
\* when the text does not match
RECURSIVE MatchFormat(_, _, _, _, _)
\* the rest of the match once the k-th item of the format matched up to position
\* r[1] - 1 with value r[2] (r[1] = 0: it did not match)
MatchedItem(s, fmt, k, f, r) ==
    IF r[1] = 0 THEN <<0, f>>
    ELSE IF StartsWith(fmt[k], "%")
        THEN MatchFormat(s, fmt, k + 1, r[1], [f EXCEPT ![FieldOf(fmt[k])] = r[2]])
    ELSE MatchFormat(s, fmt, k + 1, r[1], f)
MatchFormat(s, fmt, k, i, f) ==
    IF k > Len(fmt) THEN <<i, f>>
    ELSE IF fmt[k] = " " THEN
        MatchedItem(s, fmt, k, f,
                    IF RunEnd(s, i, SpaceSet) < i THEN Fail
                    ELSE <<RunEnd(s, i, SpaceSet) + 1, 0>>)
    ELSE IF StartsWith(fmt[k], "%") THEN MatchedItem(s, fmt, k, f, Directive(fmt[k], s, i))
    ELSE MatchedItem(s, fmt, k, f,
                     IF /\ i + Len(fmt[k]) - 1 <= Len(s)
                        /\ Lower(SubSeq(s, i, i + Len(fmt[k]) - 1)) = Lower(fmt[k])
                     THEN <<i + Len(fmt[k]), 0>> ELSE Fail)

IsLeap(y) == y % 4 = 0 /\ (y % 100 # 0 \/ y % 400 = 0)
DaysInMonth(y, m) ==
    IF m = 2 THEN (IF IsLeap(y) THEN 29 ELSE 28)
    ELSE IF m \in {4, 6, 9, 11} THEN 30 ELSE 31

\* the checks of the datetime constructor (MINYEAR is 1; second 60 and 61 are refused)
ValidDateTime(f) ==
    /\ f["%Y"] >= 1 /\ f["%Y"] <= 9999
    /\ f["%m"] >= 1 /\ f["%m"] <= 12
    /\ f["%d"] >= 1 /\ f["%d"] <= DaysInMonth(f["%Y"], f["%m"])
    /\ f["%H"] <= 23 /\ f["%M"] <= 59 /\ f["%S"] <= 59

\* datetime.strptime(s, fmt): the fields, or ValueError
Matched(s, r) ==
    IF r[1] = 0 THEN Raised("ValueError")
    ELSE IF r[1] # Len(s) + 1 THEN Raised("ValueError")
    ELSE IF ~ValidDateTime(r[2]) THEN Raised("ValueError")
    ELSE Returned(r[2])
Strptime(s, fmt) == Matched(s, MatchFormat(s, fmt, 1, 1, DefaultFields))

\* dt.date().isoformat()
IsoFormat(f) == Pad(f["%Y"], 4) \o "-" \o Pad(f["%m"], 2) \o "-" \o Pad(f["%d"], 2)

(***************************************************************************)
(* BaseScraper.parse_date                                                  *)
(***************************************************************************)
\* the formats list, each format split into its directives and literals
Formats == <<
    <<"%Y", "-", "%m", "-", "%d">>,
    <<"%B", " ", "%d", ",", " ", "%Y">>,
    <<"%b", " ", "%d", ",", " ", "%Y">>,
    <<"%d", " ", "%B", " ", "%Y">>,
    <<"%Y", "-", "%m", "-", "%d", "T", "%H", ":", "%M", ":", "%S">>,
    <<"%Y", "-", "%m", "-", "%d", "T", "%H", ":", "%M", ":", "%S", ".", "%f", "Z">> >>

\* the format of the fallback: '%B %d, %Y'
FallbackFormat == Formats[2]

\* (mutant) parse_date without its except clauses
DateCaughtNothing == {}
\* the exception classes the except clauses of parse_date name
DateCaught == {"ValueError"}

\* date_pattern = r'(\w+ \d+, \d{4})' matched at position i: the index of the last
\* character of the match, 0 when there is no match at i
DatePatternAt(s, i) ==
    LET w == RunEnd(s, i, WordSet)
        d == RunEnd(s, w + 2, DigitSet)
    IN  IF /\ w >= i
           /\ At(s, w + 1) = " "
           /\ d >= w + 2
           /\ At(s, d + 1) = ","
           /\ At(s, d + 2) = " "
           /\ \A k \in 3..6 : IsDigit(At(s, d + k))
        THEN d + 6 ELSE 0

\* re.search(date_pattern, date_str): group(1) of the leftmost match, or None
DatePatternSearch(s) ==
    LET starts == {i \in 1..Len(s) : DatePatternAt(s, i) # 0}
    IN  IF starts = {} THEN None
        ELSE LET i == CHOOSE i \in starts : \A j \in starts : i <= j
             IN  Some(SubSeq(s, i, DatePatternAt(s, i)))

\* lines 66-70: try: dt = strptime(match.group(1), '%B %d, %Y'); return the ISO date;
\* except ValueError: pass (and line 72 returns None)
FallbackParsed(dt) ==
    IF dt.exc = NoExc THEN Returned(Some(IsoFormat(dt.val)))
    ELSE IF dt.exc \in DateCaught THEN Returned(None)
    ELSE Raised(dt.exc)

\* lines 65-72, m being the match of line 64
FallbackMatched(m) ==
    IF m = None THEN Returned(None) ELSE FallbackParsed(Strptime(m[1], FallbackFormat))

\* lines 62-72: the regular-expression fallback
DateFallback(s) == FallbackMatched(DatePatternSearch(s))

\* lines 55-60: the loop over formats, from the k-th format on; FormatTried is the
\* body of the loop once strptime ended in dt
RECURSIVE DateTryFormats(_, _)
FormatTried(s, k, dt) ==
    IF dt.exc = NoExc THEN Returned(Some(IsoFormat(dt.val)))
    ELSE IF dt.exc \in DateCaught THEN DateTryFormats(s, k + 1)
    ELSE Raised(dt.exc)
DateTryFormats(s, k) ==
    IF k > Len(Formats) THEN DateFallback(s)
    ELSE FormatTried(s, k, Strptime(Strip(s), Formats[k]))

\* parse_date(date_str): [exc, val], val being None or <<the ISO date>>
parse_date(s) == IF s = "" THEN Returned(None) ELSE DateTryFormats(s, 1)

(***************************************************************************)
(* Calls of parse_date: the texts it is given                              *)
(***************************************************************************)
MaxPad == 1

MonthTitles == <<"January", "February", "March", "April", "May", "June", "July",
                 "August", "September", "October", "November", "December">>

RECURSIVE Blanks(_)
Blanks(n) == IF n = 0 THEN "" ELSE " " \o Blanks(n - 1)

IsoText(y, m, d) == Pad(y, 4) \o "-" \o Pad(m, 2) \o "-" \o Pad(d, 2)

\* the date y-m-d written in the shape of each listed format (1..6) and as an ISO
\* timestamp with a trailing Z (7)
DateStyles == 1..7
Render(style, y, m, d) ==
    CASE style = 1 -> IsoText(y, m, d)
      [] style = 2 -> MonthTitles[m] \o " " \o Pad(d, 1) \o ", " \o Pad(y, 4)
      [] style = 3 -> SubSeq(MonthTitles[m], 1, 3) \o " " \o Pad(d, 1) \o ", " \o Pad(y, 4)
      [] style = 4 -> Pad(d, 1) \o " " \o MonthTitles[m] \o " " \o Pad(y, 4)
      [] style = 5 -> IsoText(y, m, d) \o "T10:00:00"
      [] style = 6 -> IsoText(y, m, d) \o "T10:00:00.123456Z"
      [] style = 7 -> IsoText(y, m, d) \o "T10:00:00Z"

\* texts that are no rendering of a date, or a damaged one
OtherTexts == {"", "not a date", "2024-1-5", "0000-01-01", "2024-13-01",
               "2024-01-01T10:00:60", "January 5, 20245", "xJanuary 5, 2024",
               "Posted 5, 2024 January 5, 2024", "Sept 5, 2024", "january 05, 2024"}

DatePrefixes == {Blanks(n) : n \in 0..MaxPad} \cup {"Posted on "}
DateSuffixes == {Blanks(n) : n \in 0..MaxPad} \cup {" by A"}

DateSources ==
    [style : DateStyles, y : {2023, 2024}, m : 1..12, d : {1, 5, 29, 31},
     pre : DatePrefixes, post : DateSuffixes, text : {""}]
    \cup [style : {0}, y : {0}, m : {0}, d : {0},
          pre : DatePrefixes, post : DateSuffixes, text : OtherTexts]

DateText(src) ==
    src.pre \o (IF src.style = 0 THEN src.text ELSE Render(src.style, src.y, src.m, src.d))
            \o src.post

IdleDate == date_src = [style |-> 0, y |-> 0, m |-> 0, d |-> 0, pre |-> "", post |-> "",
                        text |-> ""]
            /\ date_str = "" /\ date_ret = Returned(None)
IdleFetch == fetch_retries = 0 /\ fetch_env = <<>>
             /\ fetch_ret = [exc |-> NoExc, val |-> None, requests |-> 0, sleeps |-> <<>>]
IdleScrape ==
    /\ scraper = "" /\ page = <<>> /\ parser_ok = TRUE /\ scrape_ret = Returned(<<>>)
    /\ seen_links = {} /\ scrape_again = Returned(<<>>)
IdleAll == pc = "idle" /\ idx = 0 /\ results = <<>> /\ log = <<>> /\ all_ret = Pending
IdleDb ==
    /\ db_procs = {} /\ db_table = <<>> /\ db_lock = <<>> /\ db_pc = <<>> /\ db_call = <<>>
    /\ db_ret = <<>> /\ db_calls = 0

InitDate ==
    /\ date_src \in DateSources
    /\ date_str = DateText(date_src)
    /\ date_ret = Pending
    /\ IdleFetch /\ IdleScrape /\ IdleAll /\ IdleDb

\* one call parse_date(date_str)
ParseDateCall ==
    /\ date_ret = Pending
    /\ date_ret' = parse_date(date_str)
    /\ UNCHANGED <<date_src, date_str, fetchVars, scrapeVars, allVars, dbVars>>

SpecDate == InitDate /\ [][ParseDateCall]_vars

(***************************************************************************)
(* BaseScraper.fetch_page                                                  *)
(***************************************************************************)
\* the default of the retries parameter
DefaultRetries == 3

\* the subclasses of requests.RequestException a request ends in
RequestExceptions == {"HTTPError", "ConnectionError", "Timeout", "TooManyRedirects"}

\* (mutant) fetch_page catching HTTPError alone
FetchCaughtHttpOnly == {"HTTPError"}
\* the exception classes the except clause of fetch_page names
FetchCaught == RequestExceptions

\* what one requests.get ends in: a response or a raised network error
Responses == {[kind |-> "response", status |-> 200, text |-> "<html>"],
              [kind |-> "response", status |-> 200, text |-> ""],
              [kind |-> "response", status |-> 304, text |-> ""],
              [kind |-> "response", status |-> 404, text |-> "<html>"],
              [kind |-> "response", status |-> 503, text |-> ""]}
NetworkErrors == {[kind |-> e, status |-> 0, text |-> ""] :
                    e \in {"ConnectionError", "Timeout", "TooManyRedirects"}}
RequestOutcomes == Responses \cup NetworkErrors

\* (mutant) raise_for_status raising for no status
RaiseForNoStatus(r) == NoExc
\* response.raise_for_status(): HTTPError for a 4xx or 5xx status
RaiseForStatus(r) == IF r.status >= 400 /\ r.status < 600 THEN "HTTPError" ELSE NoExc

\* lines 30-32: the try body for one request; the exception it raises, or NoExc
RequestExc(out) == IF out.kind = "response" THEN RaiseForStatus(out) ELSE out.kind

RECURSIVE Pow2(_)
Pow2(n) == IF n = 0 THEN 1 ELSE 2 * Pow2(n - 1)

\* (mutant) a backoff growing linearly
BackoffLinear(attempt) == 2 * attempt
\* the backoff after the failed attempt: time.sleep(2 ** attempt)
Backoff(attempt) == Pow2(attempt)

\* the loop of fetch_page from `attempt` on; env[k] is what the k-th request ends in.
\* The outcome carries the number of requests issued and the sleeps made, in order.
RECURSIVE FetchLoop(_, _, _, _)
FetchLoop(env, retries, attempt, sleeps) ==
    IF attempt >= retries
        THEN [exc |-> NoExc, val |-> None, requests |-> attempt, sleeps |-> sleeps]
    ELSE LET out == env[attempt + 1]
             e == RequestExc(out)
         IN  IF e = NoExc
                 THEN [exc |-> NoExc, val |-> Some(out.text), requests |-> attempt + 1,
                       sleeps |-> sleeps]
             ELSE IF e \notin FetchCaught
                 THEN [exc |-> e, val |-> None, requests |-> attempt + 1,
                       sleeps |-> sleeps]
             ELSE IF attempt < retries - 1
                 THEN FetchLoop(env, retries, attempt + 1,
                                Append(sleeps, Backoff(attempt)))
             ELSE [exc |-> NoExc, val |-> None, requests |-> attempt + 1,
                   sleeps |-> sleeps]

\* fetch_page(url, retries)
fetch_page(env, retries) == FetchLoop(env, retries, 0, <<>>)

(***************************************************************************)
(* Calls of fetch_page                                                     *)
(***************************************************************************)
MaxRetries == 4

PendingFetch == [exc |-> "Pending", val |-> None, requests |-> 0, sleeps |-> <<>>]

InitFetch ==
    /\ fetch_retries \in (0 - 1)..MaxRetries
    /\ fetch_env \in [1..(IF fetch_retries < 0 THEN 0 ELSE fetch_retries) -> RequestOutcomes]
    /\ fetch_ret = PendingFetch
    /\ IdleDate /\ IdleScrape /\ IdleAll /\ IdleDb

\* one call fetch_page(url, fetch_retries)
FetchPageCall ==
    /\ fetch_ret = PendingFetch
    /\ fetch_ret' = fetch_page(fetch_env, fetch_retries)
    /\ UNCHANGED <<fetch_retries, fetch_env, dateVars, scrapeVars, allVars, dbVars>>

SpecFetch == InitFetch /\ [][FetchPageCall]_vars

(***************************************************************************)
(* The scrapers.  The content a source serves is modelled by its parse: a  *)
(* markup page is the sequence of its elements in document order, each     *)
(* with the parts the scrapers read:                                       *)
(*   tag, class   the element's tag and class attribute                    *)
(*   href         None, or the href of the element (an anchor) or of the   *)
(*                first anchor with an href inside it (a container)        *)
(*   atext        the text of that anchor                                  *)
(*   heading      None, or the text of the first h2/h3/h4 inside           *)
(*   text         get_text() of the element                                *)
(*   time         None, or the text of the first <time> inside             *)
(*   datetime     None, or the datetime attribute of that <time>           *)
(*   para         None, or the text of the first <p> inside                *)
(* and a feed is the sequence of its entries, each with the Optional       *)
(* attributes title, link, published_parsed and summary.                   *)
(***************************************************************************)
ScraperClasses == <<"OpenAIScraper", "AnthropicScraper", "GoogleGeminiScraper",
                    "DeepViewScraper", "NVIDIAScraper", "EveryToScraper">>

\* the number of candidates one scrape() takes or emits
ItemCap == 10
\* the title length thresholds
MinTitleLen == 10
MaxTitleLen == 200
\* the length cap of a feed summary
SummaryCap == 500

\* seq[:n]
Take(seq, n) == SubSeq(seq, 1, IF Len(seq) < n THEN Len(seq) ELSE n)

\* (mutant) the loop over all article_cards, without the slice
AllCards(cards) == cards
\* article_cards[:10]
FirstCards(cards) == Take(cards, ItemCap)

\* (mutant) the base URL put in front of every link
AlwaysPrefixed(base, link) == base \o link
\* if link.startswith('/'): link = f"{base}{link}"
MakeAbsolute(base, link) == IF StartsWith(link, "/") THEN base \o link ELSE link

\* card.get('href', '')
HrefOf(e) == IF e.href = None THEN "" ELSE e.href[1]

\* get_text(strip=True) of an Optional element
TextOrNone(t) == IF t = None THEN None ELSE Some(Strip(t[1]))

Draft(source, title, link, summary, published) ==
    [source |-> source, title |-> title, link |-> link, summary |-> summary,
     published_date |-> published]

\* r'([A-Z][a-z]{2} \d{1,2}, \d{4})' (short) and r'([A-Z][a-z]+ \d{1,2}, \d{4})'
\* matched at position i: the index of the last character of the match, or 0
CardDateAt(s, i, short) ==
    LET w == IF short
                THEN (IF IsLower(At(s, i + 1)) /\ IsLower(At(s, i + 2)) THEN i + 2 ELSE 0)
                ELSE (IF IsLower(At(s, i + 1)) THEN RunEnd(s, i + 1, LowerSet) ELSE 0)
        d == IF IsDigit(At(s, w + 3)) THEN w + 3 ELSE w + 2
    IN  IF /\ IsUpper(At(s, i))
           /\ w # 0
           /\ At(s, w + 1) = " "
           /\ IsDigit(At(s, w + 2))
           /\ At(s, d + 1) = ","
           /\ At(s, d + 2) = " "
           /\ \A k \in 3..6 : IsDigit(At(s, d + k))
        THEN d + 6 ELSE 0

\* re.search of that pattern in the card's text: group(1) of the leftmost match
CardDateSearch(s, short) ==
    LET starts == {i \in 1..Len(s) : CardDateAt(s, i, short) # 0}
    IN  IF starts = {} THEN None
        ELSE LET i == CHOOSE i \in starts : \A j \in starts : i <= j
             IN  Some(SubSeq(s, i, CardDateAt(s, i, short)))

\* published_date of a card from an Optional date text: parse_date of it, None
\* without one; [exc, val]
PublishedOf(dateText) == IF dateText = None THEN Returned(None) ELSE parse_date(dateText[1])

\* the body of a loop iteration ends in a draft appended (<<draft>>) or in nothing
\* appended (<<>>): a `continue`, or an exception the iteration's except clause catches
Emit(source, title, link, e, published) ==
    IF published.exc # NoExc THEN <<>>
    ELSE <<Draft(source, title, link, TextOrNone(e.para), published.val)>>

\* OpenAIScraper.scrape, lines 95-127: one card
OpenAICard(e) ==
    IF e.heading = None THEN <<>>
    ELSE Emit("OpenAI", Strip(e.heading[1]), MakeAbsolute("https://openai.com", HrefOf(e)),
              e, PublishedOf(TextOrNone(e.time)))

\* AnthropicScraper.scrape, lines 151-187: one card
AnthropicCard(e) ==
    IF e.heading = None THEN <<>>
    ELSE Emit("Anthropic", Strip(e.heading[1]),
              MakeAbsolute("https://www.anthropic.com", HrefOf(e)),
              e, PublishedOf(CardDateSearch(e.text, TRUE)))

\* title of a container card: the heading, else the text of the link element
ContainerTitle(e) == IF e.heading = None THEN Strip(e.atext) ELSE Strip(e.heading[1])

\* date_elem.get('datetime') or date_elem.get_text(strip=True)
TimeDateText(e) ==
    IF e.time = None THEN None
    ELSE IF e.datetime # None /\ e.datetime[1] # "" THEN e.datetime
    ELSE Some(Strip(e.time[1]))

\* GoogleGeminiScraper.scrape, lines 211-249: one card
GoogleGeminiCard(e) ==
    IF e.href = None THEN <<>>
    ELSE Emit("Google Gemini", ContainerTitle(e),
              MakeAbsolute("https://blog.google", HrefOf(e)), e,
              PublishedOf(TimeDateText(e)))

\* NVIDIAScraper.scrape, lines 312-354: one card
NVIDIACard(e) ==
    IF e.href = None THEN <<>>
    ELSE IF Len(ContainerTitle(e)) < MinTitleLen THEN <<>>
    ELSE Emit("NVIDIA", ContainerTitle(e),
              MakeAbsolute("https://nvidianews.nvidia.com", HrefOf(e)), e,
              PublishedOf(CardDateSearch(e.text, FALSE)))

CardStep(cls, e) ==
    CASE cls = "OpenAIScraper" -> OpenAICard(e)
      [] cls = "AnthropicScraper" -> AnthropicCard(e)
      [] cls = "GoogleGeminiScraper" -> GoogleGeminiCard(e)
      [] cls = "NVIDIAScraper" -> NVIDIACard(e)

\* for card in cards: ... articles.append(...), from the k-th card on
RECURSIVE CardLoop(_, _, _)
CardLoop(cls, cards, k) ==
    IF k > Len(cards) THEN <<>> ELSE CardStep(cls, cards[k]) \o CardLoop(cls, cards, k + 1)

\* soup.find_all(...) of each markup scraper
ClassMatches(c) == \E w \in {"article", "post", "news", "item"} : Contains(c, w)
FindCards(cls, pg) ==
    CASE cls \in {"OpenAIScraper", "AnthropicScraper"} ->
            SelectSeq(pg, LAMBDA e : e.tag = "a" /\ e.href # None
                                     /\ Contains(e.href[1], "/news/"))
      [] cls = "GoogleGeminiScraper" -> SelectSeq(pg, LAMBDA e : e.tag = "article")
      [] cls = "NVIDIAScraper" ->
            SelectSeq(pg, LAMBDA e : e.tag \in {"article", "div"} /\ ClassMatches(e.class))
      [] cls = "EveryToScraper" ->
            SelectSeq(pg, LAMBDA e : e.tag = "a" /\ e.href # None
                                     /\ Contains(e.href[1], "/"))

\* any(x in link for x in [...]), line 392
IsEveryArticleLink(link) ==
    \E x \in {"every.to/p/", "every.to/c/", "every.to/chain-of-thought"} : Contains(link, x)

\* (mutant) the seen_links set of the last invocation, kept on the object
KeptSeenLinks == seen_links
\* line 377: seen_links = set()
NewSeenLinks == {}

\* EveryToScraper.scrape, lines 379-432: the loop from the k-th card on, with the
\* seen_links set and the articles appended so far; the articles and the set it ends with
RECURSIVE EveryToLoop(_, _, _, _)
\* lines 408-429, out being what the iteration appends
EveryToAppended(cards, k, seen, articles, out) ==
    IF out # <<>> /\ Len(articles \o out) >= ItemCap
        THEN [articles |-> articles \o out, seen |-> seen]
    ELSE EveryToLoop(cards, k + 1, seen, articles \o out)
\* lines 381-429: one card e with its href
EveryToCard(cards, k, seen, articles, e, link, title) ==
    IF HrefOf(e) \in seen THEN EveryToLoop(cards, k + 1, seen, articles)
    ELSE IF ~IsEveryArticleLink(link) THEN EveryToLoop(cards, k + 1, seen, articles)
    ELSE IF e.heading = None /\ (Len(title) > MaxTitleLen \/ Len(title) < MinTitleLen)
        THEN EveryToLoop(cards, k + 1, seen \cup {link}, articles)
    ELSE EveryToAppended(cards, k, seen \cup {link}, articles,
                         Emit("Every.to", title, link, e,
                              PublishedOf(CardDateSearch(e.text, TRUE))))
EveryToLoop(cards, k, seen, articles) ==
    IF k > Len(cards) THEN [articles |-> articles, seen |-> seen]
    ELSE EveryToCard(cards, k, seen, articles, cards[k],
                     MakeAbsolute("https://every.to", HrefOf(cards[k])),
                     IF cards[k].heading = None THEN Strip(cards[k].text)
                     ELSE Strip(cards[k].heading[1]))

\* BeautifulSoup(text, 'lxml').get_text(): the text outside the tags
InTag(s, i) ==
    \E j \in 1..(i - 1) : At(s, j) = "<" /\ \A k \in (j + 1)..(i - 1) : At(s, k) # ">"
RECURSIVE TextBetween(_, _, _)
TextBetween(s, lo, hi) ==
    IF lo > hi THEN ""
    ELSE IF lo = hi
        THEN (IF At(s, lo) = "<" \/ InTag(s, lo) THEN "" ELSE At(s, lo))
    ELSE LET mid == (lo + hi) \div 2
         IN  TextBetween(s, lo, mid) \o TextBetween(s, mid + 1, hi)
StripTags(s) == TextBetween(s, 1, Len(s))

\* DeepViewScraper.scrape, lines 265-285: one entry; an exception leaves the loop
FeedEntry(en) ==
    IF en.published_parsed # None /\ ~ValidDateTime(en.published_parsed[1])
        THEN Raised("ValueError")
    ELSE IF en.title = None \/ en.link = None THEN Raised("AttributeError")
    ELSE Returned(Draft("The Deep View", en.title[1], en.link[1],
                        IF en.summary = None THEN None
                        ELSE Some(Take(Strip(StripTags(en.summary[1])), SummaryCap)),
                        IF en.published_parsed = None THEN None
                        ELSE Some(IsoFormat(en.published_parsed[1]))))

\* for entry in feed.entries[:10], from the k-th entry on: [exc, val]
RECURSIVE FeedLoop(_, _, _)
FeedAppended(entries, k, articles, r) ==
    IF r.exc # NoExc THEN r ELSE FeedLoop(entries, k + 1, Append(articles, r.val))
FeedLoop(entries, k, articles) ==
    IF k > Len(entries) THEN Returned(articles)
    ELSE FeedAppended(entries, k, articles, FeedEntry(entries[k]))

\* lines 288-290: except Exception: return []
FeedCaught(r) == IF r.exc # NoExc THEN Returned(<<>>) ELSE r

\* DeepViewScraper.scrape: feedOk is FALSE when feedparser.parse raises
DeepViewScrape(feedOk, entries) ==
    FeedCaught(IF feedOk THEN FeedLoop(FirstCards(entries), 1, <<>>)
               ELSE Raised("Exception"))

\* scrape() of a markup scraper, after the page was fetched and parsed
MarkupArticles(cls, pg) ==
    IF cls = "EveryToScraper"
        THEN EveryToLoop(FindCards(cls, pg), 1, NewSeenLinks, <<>>).articles
    ELSE CardLoop(cls, FirstCards(FindCards(cls, pg)), 1)

\* scraper.scrape(): env is what the requests of fetch_page end in, parserOk is FALSE
\* when building the parse tree (BeautifulSoup(html, 'lxml'), feedparser.parse) raises,
\* pg is the parse of the content served; [exc, val]
Fetched(cls, html, parserOk, pg) ==
    IF html.exc # NoExc THEN Raised(html.exc)
    ELSE IF html.val = None \/ html.val = Some("") THEN Returned(<<>>)
    ELSE IF ~parserOk THEN Raised("FeatureNotFound")
    ELSE Returned(MarkupArticles(cls, pg))
scrape(cls, env, parserOk, pg) ==
    IF cls = "DeepViewScraper" THEN DeepViewScrape(parserOk, pg)
    ELSE Fetched(cls, fetch_page(env, DefaultRetries), parserOk, pg)

(***************************************************************************)
(* Calls of scrape(): the pages and feeds a source may serve               *)
(***************************************************************************)
MaxShort == 2       \* longest page built freely from the catalogue
MaxRun == 11        \* longest run of distinct well-formed cards on a page

RECURSIVE Repeat(_, _)
Repeat(c, n) ==
    IF n = 0 THEN ""
    ELSE LET half == Repeat(c, n \div 2)
         IN  half \o half \o (IF n % 2 = 1 THEN c ELSE "")

\* the base URL of each source and the path its article links share
BaseOf(cls) ==
    CASE cls = "OpenAIScraper" -> "https://openai.com"
      [] cls = "AnthropicScraper" -> "https://www.anthropic.com"
      [] cls = "GoogleGeminiScraper" -> "https://blog.google"
      [] cls = "DeepViewScraper" -> "https://www.thedeepview.co"
      [] cls = "NVIDIAScraper" -> "https://nvidianews.nvidia.com"
      [] cls = "EveryToScraper" -> "https://every.to"
SectionOf(cls) ==
    CASE cls \in {"OpenAIScraper", "AnthropicScraper", "NVIDIAScraper"} -> "/news/"
      [] cls = "GoogleGeminiScraper" -> "/products/gemini/"
      [] OTHER -> "/p/"
\* the element each source wraps a card in
TagOf(cls) ==
    CASE cls = "GoogleGeminiScraper" -> "article"
      [] cls = "NVIDIAScraper" -> "div"
      [] OTHER -> "a"
CardClassOf(cls) == IF cls = "NVIDIAScraper" THEN "news-item" ELSE ""

Element(cls, href, heading, text, time, datetime, para) ==
    [tag |-> TagOf(cls), class |-> CardClassOf(cls), href |-> href, atext |-> text,
     heading |-> heading, text |-> text, time |-> time, datetime |-> datetime,
     para |-> para]

\* the elements a page of the source is built from
Catalogue(cls) ==
    LET base == BaseOf(cls)
        sec == SectionOf(cls)
    IN  { \* a full card with a root-relative link
          Element(cls, Some(sec \o "a"), Some("  GPT-5 is released today "),
                  "GPT-5 is released today Sep 29, 2025 Read", Some(" January 5, 2024 "),
                  Some("2024-01-05T10:00:00Z"), Some(" The summary. ")),
          \* the same article linked by its absolute URL, no heading
          Element(cls, Some(base \o sec \o "a"), None, "A plain anchor text", None, None,
                  None),
          \* a path-relative link under a heading of 3 characters
          Element(cls, Some("blog" \o sec \o "b"), Some("Hi!"), "Hi! March 3, 2024",
                  Some("yesterday"), None, None),
          \* a protocol-relative link
          Element(cls, Some("//cdn.example.com" \o sec \o "c"),
                  Some("Hosted on the CDN today"), "Hosted", None, None, None),
          \* a root-relative link under a heading of 201 characters
          Element(cls, Some(sec \o "f"), Some(Repeat("x", 201)), "x", None, None, None),
          \* an absolute link under a heading of 2 characters
          Element(cls, Some(base \o sec \o "g"), Some("Hi"), "Hi", None, None, None),
          \* a card without heading whose text has 201 characters
          Element(cls, Some(sec \o "d"), None, Repeat("y", 201), None, None, None),
          \* a card without heading whose text has 9 characters
          Element(cls, Some(sec \o "e"), None, "Read more", None, None, None),
          \* a fragment-only link
          Element(cls, Some("#top"), Some("Back to the top of the page"), "Back", None,
                  None, None),
          \* an empty href and an empty heading
          Element(cls, Some(""), Some(" "), "", None, None, None),
          \* no href at all
          Element(cls, None, Some("A heading without a link"), "A heading", None, None,
                  None),
          \* an element the source's selector does not look at
          [tag |-> "span", class |-> "", href |-> Some(sec \o "a"), atext |-> "",
           heading |-> Some("Not a card at all"), text |-> "", time |-> None,
           datetime |-> None, para |-> None] }

\* the k-th of a run of well-formed cards with pairwise distinct links
GoodCard(cls, k) ==
    Element(cls, Some(SectionOf(cls) \o "n" \o Pad(k, 2)),
            Some("Release number " \o Pad(k, 2)),
            "Release number " \o Pad(k, 2) \o " Jan 5, 2024", None, None, None)
Run(cls, n) == [k \in 1..n |-> GoodCard(cls, k)]

Entry(title, link, published, summary) ==
    [title |-> title, link |-> link, published_parsed |-> published, summary |-> summary]
Stamp(y, m, d, sec) == [DefaultFields EXCEPT !["%Y"] = y, !["%m"] = m, !["%d"] = d,
                                             !["%S"] = sec]

\* the entries a feed is built from
FeedCatalogue ==
    LET base == BaseOf("DeepViewScraper")
    IN  { Entry(Some("The Deep View, issue A"), Some(base \o "/p/a"),
                Some(Stamp(2024, 1, 5, 0)), Some("<p>Hello <b>world</b></p>")),
          \* the same link again, under a title of 3 characters
          Entry(Some("Hi!"), Some(base \o "/p/a"), None, None),
          \* a relative link and an empty title
          Entry(Some(""), Some("/p/rel"), None, Some(Repeat("z", 501))),
          \* an entry without title
          Entry(None, Some(base \o "/p/c"), None, None),
          \* an entry whose timestamp is no valid datetime (a leap second)
          Entry(Some("The Deep View, issue D"), Some(base \o "/p/d"),
                Some(Stamp(2024, 6, 30, 60)), None) }
GoodEntry(k) ==
    Entry(Some("The Deep View, issue " \o Pad(k, 2)),
          Some(BaseOf("DeepViewScraper") \o "/p/n" \o Pad(k, 2)),
          Some(Stamp(2024, 1, k, 0)), None)
FeedRun(n) == [k \in 1..n |-> GoodEntry(k)]

SeqsUpTo(S, n) == UNION {[1..k -> S] : k \in 0..n}

\* the pages of a source: every short page of catalogue elements, and every run of
\* well-formed cards behind at most one catalogue element
PagesOf(cls) ==
    IF cls = "DeepViewScraper"
        THEN SeqsUpTo(FeedCatalogue, MaxShort)
             \cup {pre \o FeedRun(n) : pre \in SeqsUpTo(FeedCatalogue, 1), n \in 1..MaxRun}
    ELSE SeqsUpTo(Catalogue(cls), MaxShort)
         \cup {pre \o Run(cls, n) : pre \in SeqsUpTo(Catalogue(cls), 1), n \in 1..MaxRun}

\* what the requests of one fetch_page call end in, when scrape() is called
OkResponse == [kind |-> "response", status |-> 200, text |-> "<html>"]
FailedResponse == [kind |-> "response", status |-> 503, text |-> ""]
TimedOut == [kind |-> "Timeout", status |-> 0, text |-> ""]
FetchOk == <<OkResponse, OkResponse, OkResponse>>
FetchEnvs == {FetchOk,
              <<TimedOut, FailedResponse, OkResponse>>,
              <<FailedResponse, TimedOut, FailedResponse>>,
              <<[kind |-> "response", status |-> 200, text |-> ""], OkResponse, OkResponse>>}

PendingScrape == Pending

InitScrape ==
    /\ scraper \in {ScraperClasses[i] : i \in 1..Len(ScraperClasses)}
    /\ page \in PagesOf(scraper)
    /\ \/ fetch_env = FetchOk /\ parser_ok = TRUE
       \/ /\ page \in SeqsUpTo(Catalogue(scraper) \cup FeedCatalogue, 1)
          /\ fetch_env \in FetchEnvs
          /\ parser_ok \in BOOLEAN
    /\ scrape_ret = PendingScrape
    /\ seen_links = {}
    /\ scrape_again = PendingScrape
    /\ fetch_retries = DefaultRetries
    /\ fetch_ret = [exc |-> NoExc, val |-> None, requests |-> 0, sleeps |-> <<>>]
    /\ IdleDate /\ IdleAll /\ IdleDb

\* one call scraper.scrape()
ScrapeCall ==
    /\ scrape_ret = PendingScrape
    /\ scrape_ret' = scrape(scraper, fetch_env, parser_ok, page)
    /\ UNCHANGED <<scraper, page, parser_ok, seen_links, scrape_again, fetchVars, dateVars,
                   allVars, dbVars>>

SpecScrape == InitScrape /\ [][ScrapeCall]_vars

\* the seen_links set a call of scrape() ends with; only EveryToScraper.scrape has one
SeenAfter(cls, html, parserOk, pg) ==
    IF cls = "EveryToScraper" /\ html.exc = NoExc /\ html.val \notin {None, Some("")}
       /\ parserOk
        THEN EveryToLoop(FindCards(cls, pg), 1, NewSeenLinks, <<>>).seen
    ELSE {}

\* the call returns r, its seen_links set being `seen` at that point
Invoked(r, seen) ==
    /\ seen_links' = seen
    /\ IF scrape_ret = PendingScrape
         THEN scrape_ret' = r /\ UNCHANGED scrape_again
       ELSE scrape_again' = r /\ UNCHANGED scrape_ret

\* scraper.scrape() called on the object, for the first or for the second time, the
\* source serving the same content
ScrapeAgainCall ==
    /\ scrape_again = PendingScrape
    /\ Invoked(scrape(scraper, fetch_env, parser_ok, page),
               SeenAfter(scraper, fetch_page(fetch_env, DefaultRetries), parser_ok, page))
    /\ UNCHANGED <<scraper, page, parser_ok, fetchVars, dateVars, allVars, dbVars>>

SpecScrapeTwice == InitScrape /\ [][ScrapeAgainCall]_vars

(***************************************************************************)
(* NewsAggregator                                                          *)
(***************************************************************************)
\* str.replace(old, new) with a non-empty old
RECURSIVE Replace(_, _, _)
Replace(s, old, new) ==
    IF Len(s) = 0 THEN ""
    ELSE IF StartsWith(s, old) THEN new \o Replace(SubSeq(s, Len(old) + 1, Len(s)), old, new)
    ELSE At(s, 1) \o Replace(SubSeq(s, 2, Len(s)), old, new)

\* source_name = scraper.__class__.__name__.replace('Scraper', '')
SourceName(cls) == Replace(cls, "Scraper", "")

\* time.sleep(1) of scrape_all
PolitenessDelay == 1

\* the classes `except Exception` catches: every exception class of the model derives
\* from Exception
ExceptionClasses == RequestExceptions \cup {"ValueError", "AttributeError",
                                            "FeatureNotFound", "Exception"}
\* (mutant) scrape_all catching the request errors alone
AggregatorCaughtNarrow == RequestExceptions
AggregatorCaught == ExceptionClasses

\* results[key] = value
DictSet(d, key, value) ==
    [k \in DOMAIN d \cup {key} |-> IF k = key THEN value ELSE d[k]]

CallEvent(cls, env, ret) == [op |-> "scrape", cls |-> cls, env |-> env, ret |-> ret]
SleepEvent(secs) == [op |-> "sleep", secs |-> secs]

\* NewsAggregator.__init__ followed by the call of scrape_all: results = {}
MaxServed == 1      \* longest page a source serves during a run of scrape_all

\* what a source serves during the run: its requests' outcomes, whether the content
\* parses, and the page
ServedBy(cls) ==
    {[env |-> FetchOk, parser_ok |-> TRUE,
      page |-> IF cls = "DeepViewScraper" THEN FeedRun(n) ELSE Run(cls, n)] :
        n \in 0..MaxServed}
    \cup {[env |-> <<FailedResponse, TimedOut, FailedResponse>>, parser_ok |-> TRUE,
           page |-> <<>>],
          [env |-> FetchOk, parser_ok |-> FALSE, page |-> <<>>]}

Init ==
    /\ pc = "start"
    /\ idx = 1
    /\ results = <<>>
    /\ log = <<>>
    /\ all_ret = Pending
    /\ IdleDate /\ IdleFetch /\ IdleScrape /\ IdleDb

\* (mutant) scrape_all returning from its except clause
ScrapedOrAborted(cls, source_name, env, ret) ==
    IF ret.exc = NoExc
        THEN /\ results' = DictSet(results, source_name, ret.val)
             /\ log' = log \o <<CallEvent(cls, env, ret), SleepEvent(PolitenessDelay)>>
             /\ idx' = idx + 1
             /\ UNCHANGED <<pc, all_ret>>
    ELSE /\ results' = DictSet(results, source_name, <<>>)
         /\ log' = Append(log, CallEvent(cls, env, ret))
         /\ pc' = "done"
         /\ all_ret' = Returned(DictSet(results, source_name, <<>>))
         /\ UNCHANGED idx
\* lines 458-465, ret being what scraper.scrape() ended in
Scraped(cls, source_name, env, ret) ==
    IF ret.exc = NoExc
        THEN /\ results' = DictSet(results, source_name, ret.val)
             /\ log' = log \o <<CallEvent(cls, env, ret), SleepEvent(PolitenessDelay)>>
             /\ idx' = idx + 1
             /\ UNCHANGED <<pc, all_ret>>
    ELSE IF ret.exc \in AggregatorCaught
        THEN /\ results' = DictSet(results, source_name, <<>>)
             /\ log' = Append(log, CallEvent(cls, env, ret))
             /\ idx' = idx + 1
             /\ UNCHANGED <<pc, all_ret>>
    ELSE /\ log' = Append(log, CallEvent(cls, env, ret))
         /\ pc' = "done"
         /\ all_ret' = Raised(ret.exc)
         /\ UNCHANGED <<results, idx>>
\* lines 454-465: one iteration of the loop over self.scrapers
ScrapeOne(cls, served) ==
    Scraped(cls, SourceName(cls), served.env,
            scrape(cls, served.env, served.parser_ok, served.page))

\* line 452: results = {}
ScrapeAllStart ==
    /\ pc = "start"
    /\ pc' = "loop"
    /\ results' = <<>>
    /\ UNCHANGED <<idx, log, all_ret, dateVars, fetchVars, scrapeVars, dbVars>>

ScrapeAllStep ==
    /\ pc = "loop"
    /\ idx <= Len(ScraperClasses)
    /\ \E served \in ServedBy(ScraperClasses[idx]) : ScrapeOne(ScraperClasses[idx], served)
    /\ UNCHANGED <<dateVars, fetchVars, scrapeVars, dbVars>>

\* line 467: return results
ScrapeAllReturn ==
    /\ pc = "loop"
    /\ idx > Len(ScraperClasses)
    /\ pc' = "done"
    /\ all_ret' = Returned(results)
    /\ UNCHANGED <<idx, results, log, dateVars, fetchVars, scrapeVars, dbVars>>

Next == ScrapeAllStart \/ ScrapeAllStep \/ ScrapeAllReturn

Spec == Init /\ [][Next]_vars

\* calls of parse_date and calls of scrape()
SpecDateScrape == (InitDate \/ InitScrape) /\ [][ParseDateCall \/ ScrapeCall]_vars

(***************************************************************************)
(* NewsDatabase.add_article (src/database.py).  Every call opens its own   *)
(* connections to the database file, so calls made by different processes  *)
(* interleave at the statements that touch the file: the SELECT of         *)
(* article_exists, the INSERT, which takes the write lock of the file, and *)
(* the commit, which publishes the row and releases the lock.  A process   *)
(* whose INSERT finds the file locked waits for the lock.                  *)
(***************************************************************************)
MaxCalls == 4       \* calls of add_article in one behaviour

\* the articles handed to add_article: two of them share their link
DbArticles ==
    {[source |-> "OpenAI", title |-> "GPT-5 is released today",
      link |-> "https://openai.com/news/a", summary |-> None,
      published_date |-> Some("2024-01-05")],
     [source |-> "Every.to", title |-> "The same link under another title",
      link |-> "https://openai.com/news/a", summary |-> Some("The summary."),
      published_date |-> None],
     [source |-> "NVIDIA", title |-> "Release number 01",
      link |-> "https://nvidianews.nvidia.com/news/n01", summary |-> None,
      published_date |-> None],
     [source |-> "The Deep View", title |-> "", link |-> "/p/b", summary |-> Some(""),
      published_date |-> Some("2024-02-29")]}

\* (mutant) article_exists finding a row whatever the link
AlwaysExists(table, link) == TRUE
\* article_exists, lines 46-55: SELECT COUNT(*) FROM articles WHERE link = ? is > 0
article_exists(table, link) == \E i \in 1..Len(table) : table[i].link = link

\* (mutant) a table without the UNIQUE constraint on link
NoLinkTaken(table, link) == FALSE
\* line 27, link TEXT UNIQUE: the INSERT of a row with this link is refused
LinkTaken(table, link) == \E i \in 1..Len(table) : table[i].link = link

\* the exception classes the except clause of add_article names
DbCaught == {"IntegrityError"}

\* the processes `procs`, each with NewsDatabase(db_path) on one new database file
InitDb(procs) ==
    /\ db_procs = procs
    /\ db_table = <<>>
    /\ db_lock = None
    /\ db_pc = [p \in procs |-> "idle"]
    /\ db_call = [p \in procs |-> None]
    /\ db_ret = [p \in procs |-> Pending]
    /\ db_calls = 0
    /\ IdleDate /\ IdleFetch /\ IdleScrape /\ IdleAll

\* the call of p ends: ret is what it returns or raises.  `raced` tells that the call
\* and a call of another process for the same link both passed article_exists before
\* either of them executed its INSERT
AddArticleEnds(p, call, ret) ==
    /\ db_ret' = [db_ret EXCEPT ![p] = [exc |-> ret.exc, val |-> ret.val,
                                        link |-> call.art.link,
                                        before |-> call.before, raced |-> call.raced]]
    /\ db_pc' = [db_pc EXCEPT ![p] = "idle"]

\* lines 57-64: p calls add_article(art); article_exists(link) runs first
AddArticleCall(p, art) ==
    /\ db_pc[p] = "idle"
    /\ db_calls < MaxCalls
    /\ db_calls' = db_calls + 1
    /\ LET racing == {q \in db_procs \ {p} :
                        db_pc[q] = "insert" /\ db_call[q][1].art.link = art.link}
           call == [art |-> art, before |-> db_table, raced |-> racing # {}]
       IN  IF article_exists(db_table, art.link)
               THEN /\ AddArticleEnds(p, [call EXCEPT !.raced = FALSE], Returned(FALSE))
                    /\ UNCHANGED db_call
           ELSE /\ db_call' = [q \in db_procs |->
                                 IF q = p THEN Some(call)
                                 ELSE IF q \in racing
                                     THEN Some([db_call[q][1] EXCEPT !.raced = TRUE])
                                 ELSE db_call[q]]
                /\ db_pc' = [db_pc EXCEPT ![p] = "insert"]
                /\ db_ret' = [db_ret EXCEPT ![p] = Pending]
    /\ UNCHANGED <<db_procs, db_table, db_lock>>

\* lines 66-75 and 80-82: the INSERT, once the write lock of the file is free
AddArticleInsert(p) ==
    /\ db_pc[p] = "insert"
    /\ db_lock = None
    /\ IF LinkTaken(db_table, db_call[p][1].art.link)
         THEN /\ AddArticleEnds(p, db_call[p][1],
                                IF "IntegrityError" \in DbCaught THEN Returned(FALSE)
                                ELSE Raised("IntegrityError"))
              /\ UNCHANGED db_lock
       ELSE /\ db_lock' = Some(p)
            /\ db_pc' = [db_pc EXCEPT ![p] = "commit"]
            /\ UNCHANGED db_ret
    /\ UNCHANGED <<db_procs, db_table, db_call, db_calls>>

\* lines 77-79: conn.commit(), conn.close(), return True
AddArticleCommit(p) ==
    /\ db_pc[p] = "commit"
    /\ db_table' = Append(db_table, [id |-> Len(db_table) + 1] @@ db_call[p][1].art)
    /\ db_lock' = None
    /\ AddArticleEnds(p, db_call[p][1], Returned(TRUE))
    /\ UNCHANGED <<db_procs, db_call, db_calls>>

NextDb ==
    /\ \E p \in db_procs :
        \/ \E art \in DbArticles : AddArticleCall(p, art)
        \/ AddArticleInsert(p)
        \/ AddArticleCommit(p)
    /\ UNCHANGED <<dateVars, fetchVars, scrapeVars, allVars>>

\* one process calling add_article again and again
SpecDb == InitDb({1}) /\ [][NextDb]_vars
\* two processes calling add_article on the same database file
SpecDbRace == InitDb({1, 2}) /\ [][NextDb]_vars

(***************************************************************************)
(* Properties                                                              *)
(***************************************************************************)
Calls == SelectSeq(log, LAMBDA ev : ev.op = "scrape")
Range(f) == {f[i] : i \in DOMAIN f}

\* the fetch of the call ended in failure after its retries
FetchFailed(ev) ==
    /\ ev.cls # "DeepViewScraper"
    /\ \A k \in 1..DefaultRetries : ev.env[k].kind # "response" \/ ev.env[k].status >= 400

\* C1: fault isolation in scrape_all: scrape_all never raises; a source whose fetch
\* failed after its retries, or whose extractor raised, has the empty sequence as its
\* entry; every other source called so far has exactly what its extractor returned
C1_FaultIsolation ==
    /\ all_ret.exc \in {"Pending", NoExc}
    /\ pc = "done" => all_ret = Returned(results)
    /\ \A ev \in Range(Calls) :
        /\ SourceName(ev.cls) \in DOMAIN results
        /\ (FetchFailed(ev) \/ ev.ret.exc # NoExc) => results[SourceName(ev.cls)] = <<>>
        /\ ev.ret.exc = NoExc => results[SourceName(ev.cls)] = ev.ret.val

\* a finished run in which one source's fetch failed, another's extractor raised and
\* a third returned articles
C1_Witness ==
    /\ pc = "done"
    /\ \E a, b, c \in Range(Calls) :
        /\ FetchFailed(a)
        /\ b.ret.exc # NoExc
        /\ c.ret.exc = NoExc /\ c.ret.val # <<>>
        /\ all_ret.val[SourceName(c.cls)] = c.ret.val

\* C2: scrape_all calls scrape() on the six extractors once each, one after the other
\* in the order OpenAI, Anthropic, Google Gemini, Deep View, NVIDIA, Every.to, returns
\* only after the sixth call, and the mapping returned has six entries, one per source
C2_Order == <<"OpenAIScraper", "AnthropicScraper", "GoogleGeminiScraper",
              "DeepViewScraper", "NVIDIAScraper", "EveryToScraper">>
C2_EachOnceInOrder ==
    /\ Len(Calls) <= 6
    /\ \A i \in 1..Len(Calls) : Calls[i].cls = C2_Order[i]
    /\ all_ret # Pending =>
        /\ Len(Calls) = 6
        /\ all_ret.exc = NoExc
        /\ DOMAIN all_ret.val = {SourceName(C2_Order[i]) : i \in 1..6}
        /\ Cardinality(DOMAIN all_ret.val) = 6

\* a finished run in which the first and the last source failed
C2_Witness ==
    /\ pc = "done"
    /\ Len(Calls) = 6
    /\ Calls[1].ret.exc # NoExc
    /\ FetchFailed(Calls[6])
    /\ Calls[3].ret.val # <<>>

\* C3: one scrape() returns at most 10 drafts, whatever the number of candidates
C3_AtMostTen ==
    (scrape_ret # Pending /\ scrape_ret.exc = NoExc) => Len(scrape_ret.val) <= 10

\* a page of more than 10 candidates of which 10 are emitted
C3_Witness ==
    /\ scraper = "NVIDIAScraper"
    /\ Len(page) > 10
    /\ scrape_ret # Pending
    /\ Len(scrape_ret.val) = 10

\* C4: within one scrape() no two emitted drafts have the same link
C4_NoDuplicateLinks ==
    (scrape_ret # Pending /\ scrape_ret.exc = NoExc) =>
        \A i, j \in 1..Len(scrape_ret.val) :
            i # j => scrape_ret.val[i].link # scrape_ret.val[j].link

\* an absolute URL: a scheme and a host
IsAbsoluteUrl(link) ==
    \E scheme \in {"http://", "https://"} :
        /\ StartsWith(link, scheme)
        /\ At(link, Len(scheme) + 1) \notin {"", "/"}

\* C5: every emitted draft has an absolute URL as its link
C5_LinksAbsolute ==
    (scrape_ret # Pending /\ scrape_ret.exc = NoExc) =>
        \A i \in 1..Len(scrape_ret.val) : IsAbsoluteUrl(scrape_ret.val[i].link)

\* the base URL of each markup-card source, as the specification names it
C6_Base ==
    [c \in {"OpenAIScraper", "AnthropicScraper", "GoogleGeminiScraper", "NVIDIAScraper",
            "EveryToScraper"} |->
        CASE c = "OpenAIScraper" -> "https://openai.com"
          [] c = "AnthropicScraper" -> "https://www.anthropic.com"
          [] c = "GoogleGeminiScraper" -> "https://blog.google"
          [] c = "NVIDIAScraper" -> "https://nvidianews.nvidia.com"
          [] c = "EveryToScraper" -> "https://every.to"]
IsRootRelative(h) == StartsWith(h, "/") /\ ~StartsWith(h, "//")
C6_Resolved(c, h) == IF IsRootRelative(h) THEN C6_Base[c] \o h ELSE h

\* C6: in each markup-card extractor, a page whose hrefs are all root-relative or
\* absolute yields drafts whose link is the base URL followed by the href for a
\* root-relative href, and the href unchanged for an absolute one
C6_LinkResolution ==
    ( /\ scrape_ret # Pending /\ scrape_ret.exc = NoExc
      /\ scraper \in DOMAIN C6_Base
      /\ \A j \in 1..Len(page) :
            page[j].href # None
            /\ (IsRootRelative(page[j].href[1]) \/ IsAbsoluteUrl(page[j].href[1])) )
    => \A i \in 1..Len(scrape_ret.val) :
          \E j \in 1..Len(page) :
              /\ scrape_ret.val[i].link = C6_Resolved(scraper, page[j].href[1])
              /\ scrape_ret.val[i].title \in
                    {Strip(page[j].text)} \cup
                    (IF page[j].heading = None THEN {} ELSE {Strip(page[j].heading[1])})

\* a page with a root-relative and an absolute href, both emitted
C6_Witness ==
    /\ scraper = "GoogleGeminiScraper"
    /\ Len(page) = 2
    /\ page[1].href = Some("/products/gemini/a")
    /\ page[2].href = Some("https://blog.google/products/gemini/a")
    /\ scrape_ret # Pending
    /\ Len(scrape_ret.val) = 2
    /\ scrape_ret.val[1].link = "https://blog.google/products/gemini/a"
    /\ scrape_ret.val[2].link = "https://blog.google/products/gemini/a"

\* an ISO calendar date: YYYY-MM-DD naming a day of the calendar
IsIsoDate(s) ==
    /\ Len(s) = 10
    /\ \A i \in {1, 2, 3, 4, 6, 7, 9, 10} : IsDigit(At(s, i))
    /\ At(s, 5) = "-" /\ At(s, 8) = "-"
    /\ IntOf(SubSeq(s, 1, 4)) >= 1
    /\ IntOf(SubSeq(s, 6, 7)) \in 1..12
    /\ IntOf(SubSeq(s, 9, 10)) \in
            1..DaysInMonth(IntOf(SubSeq(s, 1, 4)), IntOf(SubSeq(s, 6, 7)))
IsoOrNone(v) == v = None \/ (Len(v) = 1 /\ IsIsoDate(v[1]))

\* C7: parse_date never raises and returns None or an ISO calendar date, and every
\* emitted draft has None or an ISO calendar date as its published_date
C7_DateTotalCanonical ==
    /\ date_ret # Pending => (date_ret.exc = NoExc /\ IsoOrNone(date_ret.val))
    /\ (scrape_ret # Pending /\ scrape_ret.exc = NoExc) =>
            \A i \in 1..Len(scrape_ret.val) : IsoOrNone(scrape_ret.val[i].published_date)

\* a timestamp in a sentence: the formats raise ValueError, the fallback finds nothing
C7_Witness ==
    /\ date_src.style = 5
    /\ date_src.pre = "Posted on "
    /\ date_ret = Returned(None)

\* the date of the calendar
IsCalendarDate(y, m, d) == d <= DaysInMonth(y, m)

\* C8: parse_date maps the texts of the round-trip table as stated, and each text in
\* the shape of a listed format, or of an ISO timestamp with a trailing Z, to its date
C8_RoundTrip ==
    date_ret # Pending =>
        /\ date_str = "2024-01-01" => date_ret = Returned(Some("2024-01-01"))
        /\ date_str = "January 5, 2024" => date_ret = Returned(Some("2024-01-05"))
        /\ date_str = "Jan 5, 2024" => date_ret = Returned(Some("2024-01-05"))
        /\ date_str = "2024-01-01T10:00:00Z" => date_ret = Returned(Some("2024-01-01"))
        /\ date_str = "not a date" => date_ret = Returned(None)
        /\ ( /\ date_src.style \in 1..7
             /\ date_src.pre = "" /\ date_src.post = ""
             /\ IsCalendarDate(date_src.y, date_src.m, date_src.d) )
           => date_ret = Returned(Some(IsoText(date_src.y, date_src.m, date_src.d)))

\* C9: every emitted draft has a trimmed title of at least 10 characters, and a draft
\* of the Every.to extractor a title of at most 200 characters
C9_TitleBounds ==
    (scrape_ret # Pending /\ scrape_ret.exc = NoExc) =>
        \A i \in 1..Len(scrape_ret.val) :
            /\ Len(scrape_ret.val[i].title) >= 10
            /\ Strip(scrape_ret.val[i].title) = scrape_ret.val[i].title
            /\ scraper = "EveryToScraper" => Len(scrape_ret.val[i].title) <= 200

\* a request that ended in a network error or a non-success status
C10_Failed(out) == out.kind # "response" \/ out.status >= 400

\* C10: fetch_page never raises: it returns the content of a request that succeeded,
\* or None, and None only when each of its `retries` requests failed
C10_FetchNeverRaises ==
    fetch_ret # PendingFetch =>
        /\ fetch_ret.exc = NoExc
        /\ fetch_ret.val # None =>
            \E k \in 1..fetch_retries :
                ~C10_Failed(fetch_env[k]) /\ fetch_ret.val = Some(fetch_env[k].text)
        /\ fetch_ret.val = None => \A k \in 1..fetch_retries : C10_Failed(fetch_env[k])

\* three requests ending in a timeout, a 503 and a refused connection: None
C10_Witness ==
    /\ fetch_retries = 3
    /\ fetch_env[1].kind = "Timeout"
    /\ fetch_env[2].status = 503
    /\ fetch_env[3].kind = "ConnectionError"
    /\ fetch_ret # PendingFetch
    /\ fetch_ret.val = None
    /\ fetch_ret.requests = 3

\* the number of requests fetch_page may issue with the retry limit r
Limit(r) == IF r < 0 THEN 0 ELSE r
\* the requests of the call that did not fail, failed(out) telling a failed request
Succeeded(failed(_)) == {k \in 1..Limit(fetch_retries) : ~failed(fetch_env[k])}
Least(S) == CHOOSE k \in S : \A j \in S : k <= j
\* at most R requests; the first request that does not fail ends the call with its
\* content; when all R fail, R were issued and None is returned
RetriesUntilSuccess(failed(_)) ==
    fetch_ret # PendingFetch =>
        /\ fetch_ret.exc = NoExc
        /\ fetch_ret.requests <= Limit(fetch_retries)
        /\ IF Succeeded(failed) # {}
             THEN /\ fetch_ret.requests = Least(Succeeded(failed))
                  /\ fetch_ret.val = Some(fetch_env[Least(Succeeded(failed))].text)
           ELSE /\ fetch_ret.requests = Limit(fetch_retries)
                /\ fetch_ret.val = None

\* a request that ended in a network error or in a status outside 2xx
C11_NonSuccess(out) == out.kind # "response" \/ out.status < 200 \/ out.status >= 300
\* a request that ended in a network error or in a 4xx or 5xx status
C11_ErrorStatus(out) == out.kind # "response" \/ (out.status >= 400 /\ out.status < 600)

\* C11 (as stated): fetch_page with limit R issues at most R requests, follows each
\* request that ended in a network error or a non-success status by another while
\* fewer than R were issued, returns the content of the first success and issues no
\* request after it, and returns None after exactly R requests when all fail
C11_RetryOnNonSuccess == RetriesUntilSuccess(C11_NonSuccess)

\* C11 (amended): the same, a failed request being one that ended in a network error
\* or in a 4xx or 5xx status; a response with any other status ends the call
C11_RetryOnErrorStatus == RetriesUntilSuccess(C11_ErrorStatus)

\* a timeout, then a 404, then a success, then a request never issued
C11_Witness ==
    /\ fetch_retries = 4
    /\ fetch_env[1].kind = "Timeout"
    /\ fetch_env[2].status = 404
    /\ fetch_env[3] = [kind |-> "response", status |-> 200, text |-> "<html>"]
    /\ fetch_env[4].status = 503
    /\ fetch_ret # PendingFetch
    /\ fetch_ret.requests = 3
    /\ fetch_ret.val = Some("<html>")

\* the failed requests of the call, in order
FailedAttempts == Limit(fetch_ret.requests) - (IF fetch_ret.val = None THEN 0 ELSE 1)
RECURSIVE TwoToThe(_)
TwoToThe(i) == IF i = 0 THEN 1 ELSE 2 * TwoToThe(i - 1)

\* C12 (as stated): after the failed attempt of index i fetch_page waits 2^i seconds,
\* so that three failed attempts under the default limit wait 1 s, 2 s and 4 s
C12_BackoffAfterEachFailure ==
    fetch_ret # PendingFetch =>
        fetch_ret.sleeps = [i \in 1..FailedAttempts |-> TwoToThe(i - 1)]

\* C12 (amended): after the failed attempt of index i that is not the last one the
\* limit allows, fetch_page waits 2^i seconds; there is no wait after the last
\* attempt, so the default limit of 3 waits 1 s and 2 s, and 4 s only under a limit
\* of 4 or more
C12_BackoffBetweenAttempts ==
    fetch_ret # PendingFetch =>
        /\ fetch_ret.sleeps =
              [i \in 1..(IF FailedAttempts = Limit(fetch_retries)
                            THEN FailedAttempts - 1 ELSE FailedAttempts)
                  |-> TwoToThe(i - 1)]
        /\ (fetch_retries = 3 /\ FailedAttempts = 3) => fetch_ret.sleeps = <<1, 2>>

\* four failed attempts under a limit of 4: waits of 1 s, 2 s and 4 s
C12_Witness ==
    /\ fetch_retries = 4
    /\ fetch_ret # PendingFetch
    /\ fetch_ret.requests = 4
    /\ fetch_ret.val = None
    /\ fetch_ret.sleeps = <<1, 2, 4>>

\* C13: in scrape_all the politeness delay of 1 second lies between every two
\* successive calls of scrape(), whether the earlier call returned or raised
C13_DelayBetweenCalls ==
    \A i \in 1..(Len(log) - 1) :
        log[i].op = "scrape" =>
            (log[i + 1].op = "sleep" /\ log[i + 1].secs = 1)

LinksOf(table) == {table[i].link : i \in 1..Len(table)}
RowsWith(table, link) == {i \in 1..Len(table) : table[i].link = link}

\* C15: add_article, called by one process: the call returns True exactly when no row
\* with the link existed before it, and then the table is the table before plus one
\* row with that link; it returns False and leaves the table as it was when a row with
\* the link existed; the table never holds two rows with one link
C15_AddIfAbsent ==
    /\ \A link \in LinksOf(db_table) : Cardinality(RowsWith(db_table, link)) = 1
    /\ \A p \in db_procs :
        db_ret[p] # Pending =>
            /\ db_ret[p].exc = NoExc
            /\ db_ret[p].val = (db_ret[p].link \notin LinksOf(db_ret[p].before))
            /\ db_ret[p].val = TRUE =>
                  /\ Len(db_table) = Len(db_ret[p].before) + 1
                  /\ SubSeq(db_table, 1, Len(db_ret[p].before)) = db_ret[p].before
                  /\ db_table[Len(db_table)].link = db_ret[p].link
            /\ db_ret[p].val = FALSE => db_table = db_ret[p].before

\* a third call that returns False for a link stored by the first, the table of two
\* rows unchanged
C15_Witness ==
    /\ db_procs = {1}
    /\ db_calls = 3
    /\ Len(db_table) = 2
    /\ db_ret[1] # Pending
    /\ db_ret[1].val = FALSE
    /\ db_ret[1].link = db_table[1].link
    /\ db_ret[1].before = db_table

\* C20: when two add_article calls for one link have both passed the article_exists
\* check before either inserts, neither raises, exactly one of them returns True, the
\* other returns False, and the table holds exactly one row with that link
C20_RaceInsertsOnce ==
    /\ \A p \in db_procs : db_ret[p] # Pending => db_ret[p].exc = NoExc
    /\ \A p, q \in db_procs :
        ( /\ p # q
          /\ db_ret[p] # Pending /\ db_ret[q] # Pending
          /\ db_ret[p].raced /\ db_ret[q].raced
          /\ db_ret[p].link = db_ret[q].link )
        => /\ {db_ret[p].val, db_ret[q].val} = {TRUE, FALSE}
           /\ Cardinality(RowsWith(db_table, db_ret[p].link)) = 1

\* both processes passed the check for the same link on an empty table; the second
\* returned True, the first False, and the table has the one row
C20_Witness ==
    /\ db_procs = {1, 2}
    /\ db_ret[1] # Pending /\ db_ret[2] # Pending
    /\ db_ret[1].raced /\ db_ret[2].raced
    /\ db_ret[1].before = <<>> /\ db_ret[2].before = <<>>
    /\ db_ret[1].link = db_ret[2].link
    /\ db_ret[1].val = FALSE /\ db_ret[2].val = TRUE
    /\ Len(db_table) = 1

\* a call of scrape() that fetched and parsed the content and returned
ScrapedContent ==
    /\ scrape_ret # PendingScrape /\ scrape_ret.exc = NoExc
    /\ fetch_env = FetchOk /\ parser_ok
\* the well-formed candidates: a heading or title, a link of their own, a valid date
WellFormedFeed == {GoodEntry(k) : k \in 1..(MaxRun + 1)}
WellFormedCards == {GoodCard(scraper, k) : k \in 1..(MaxRun + 1)}
\* the positions on the page of the well-formed candidates
WellFormedAt ==
    {j \in 1..Len(page) :
        IF scraper = "DeepViewScraper" THEN page[j] \in WellFormedFeed
        ELSE page[j] \in WellFormedCards}
\* the draft of the well-formed candidate c is the i-th draft returned
DraftOf(c, i) ==
    /\ i \in 1..Len(scrape_ret.val)
    /\ IF scraper = "DeepViewScraper"
         THEN /\ scrape_ret.val[i].title = c.title[1]
              /\ scrape_ret.val[i].link = c.link[1]
       ELSE /\ scrape_ret.val[i].title = Strip(c.heading[1])
            /\ scrape_ret.val[i].link = C6_Resolved(scraper, c.href[1])

\* C16: per-candidate isolation: a candidate that raises or lacks a required field is
\* skipped alone: every well-formed candidate among the first 10 of the page or feed,
\* before or after it, is still emitted
C16_SiblingsEmitted ==
    ScrapedContent =>
        \A j \in WellFormedAt :
            j <= 10 => \E i \in 1..Len(scrape_ret.val) : DraftOf(page[j], i)

\* C17: the cap of 10 is applied after filtering: a markup page with k well-formed
\* candidates of pairwise distinct links yields at least min(k, 10) drafts, whatever
\* rejected candidate precedes them
C17_CapAfterFiltering ==
    (ScrapedContent /\ scraper # "DeepViewScraper") =>
        Len(scrape_ret.val) >=
            (IF Cardinality(WellFormedAt) > 10 THEN 10 ELSE Cardinality(WellFormedAt))

\* C18: title fallback: in a markup-card extractor, a page of one candidate that has
\* no heading, a link that resolves to an absolute URL and an anchor text of 10 to 200
\* characters yields the draft of that candidate, its title being the anchor's text
C18_HeadlessEmitted ==
    ( /\ ScrapedContent /\ scraper # "DeepViewScraper"
      /\ Len(page) = 1
      /\ page[1].tag = TagOf(scraper)
      /\ page[1].heading = None
      /\ page[1].href # None
      /\ IsAbsoluteUrl(C6_Resolved(scraper, page[1].href[1]))
      /\ Len(Strip(page[1].text)) >= 10 /\ Len(Strip(page[1].text)) <= 200 )
    => /\ Len(scrape_ret.val) = 1
       /\ scrape_ret.val[1].title = Strip(page[1].text)

\* C19: when no format matches the whole text, parse_date returns the date of a valid
\* `Month D, YYYY` substring of the text: one surrounded by other words, and one that
\* follows a fragment of the same shape that is no date
C19_DateAnywhere ==
    date_ret # Pending =>
        /\ ( /\ date_src.style = 2
             /\ IsCalendarDate(date_src.y, date_src.m, date_src.d)
             /\ date_src.pre = "Posted on " \/ date_src.post = " by A" )
           => date_ret = Returned(Some(IsoText(date_src.y, date_src.m, date_src.d)))
        /\ date_src.text = "Posted 5, 2024 January 5, 2024"
           => date_ret = Returned(Some("2024-01-05"))

\* C21: grouping consistency of scrape_all: every draft listed under a key of the
\* returned mapping has that key as its source field
C21_KeyIsSource ==
    (all_ret # Pending /\ all_ret.exc = NoExc) =>
        \A k \in DOMAIN all_ret.val :
            \A i \in 1..Len(all_ret.val[k]) : all_ret.val[k][i].source = k

====
